---- MODULE Spec2Model ----
(***************************************************************************)
(* Model of djangochannelsrestframework/observer/generics.py:              *)
(*   - the per-connection subscription table (subscribed_requests), the    *)
(*     subscribe_instance / unsubscribe_instance actions and the dispatch  *)
(*     of change events (handle_instance_change, handle_observed_action);  *)
(*   - the class-construction-time binding of observers done by            *)
(*     ObserverAPIConsumerMetaclass.__new__ (second part of the module).   *)
(***************************************************************************)
EXTENDS Integers, Sequences, FiniteSets, TLC

\* ------------------------------------------------------------------ bounds

\* Most change events that may be in flight (published, not yet dispatched by
\* every connection they were queued on) at a time.
MaxEvents == 1

\* ------------------------------------------------------------ value domains

\* Connections (one consumer instance each).
Conns == {"c1", "c2"}

\* Primary keys of the entity instances that get_object can resolve.
Instances == {1, 2}

\* A selector that resolves to no instance (get_object raises NotFound).
NoSuchSelector == 0

Selectors == Instances \cup {NoSuchSelector}

\* Python's None, for an absent request_id.
None == "None"

RequestIds == {"r1", "r2"}

\* The action strings a change event may carry: the names the event envelope
\* documents plus the literal handle_observed_action compares with.
Actions == {"created", "updated", "deleted", "delete"}

\* The key under which subscribe_instance records the request id:
\* self.__class__.handle_instance_change.
HIC == "handle_instance_change"

\* instance.uuid, distinct from instance.pk.
UuidOffset == 100

Uuid(x) == UuidOffset + x

\* ------------------------------------------------------------------- state

VARIABLES
    observer,             \* the bound observer of the consumer class
    members,              \* broker: connection -> set of joined group names
    subscribed_requests,  \* connection -> dict (observer key -> request id)
    inflight,             \* broker: the change events published, oldest
                          \* first, each with the connections it is queued on
    last,                 \* the last handler run: inputs, calls, outcome, reply
    subscribedWith,       \* history: connection -> instance -> request id of
                          \* the subscribe_instance call that subscribed it
    classes               \* the consumer classes constructed so far: class
                          \* name -> bases, method resolution order, the
                          \* namespace of the class body as written (body) and
                          \* as the metaclass built the class from it (ns)

vars == <<observer, members, subscribed_requests, inflight, last,
          subscribedWith, classes>>

\* ----------------------------------------------------------- dict helpers

EmptyDict == [k \in {} |-> None]

\* d[k] = v
DictSet(d, k, v) == [j \in (DOMAIN d) \cup {k} |-> IF j = k THEN v ELSE d[j]]

\* del d[k]  (the caller checks k \in DOMAIN d; a missing key is a KeyError)
DictDel(d, k) == [j \in (DOMAIN d) \ {k} |-> d[j]]

\* d.get(k)
DictGet(d, k) == IF k \in DOMAIN d THEN d[k] ELSE None

\* The set of elements of a sequence.
Range(s) == {s[i] : i \in 1..Len(s)}

\* --------------------------------------------------------- group names

\* A user-supplied get_group_names(observer, instance): one group shared by
\* all instances of the model and one per instance.
GroupNamesFunc(obs, x) == << <<"all", 0>>, <<"pk", x>> >>

\* The generator registered with handle_instance_change.groups: the names of
\* the groups of one instance, in the order yielded.  The f-string
\* "{prefix}-{uuid}" is the pair <<prefix, uuid>>.  A model without a uuid
\* field makes instance.uuid raise AttributeError (ok = FALSE).
GroupNames(obs, x) ==
    IF obs.has_group_names_func
    THEN [ok |-> TRUE, names |-> GroupNamesFunc(obs, x)]
    ELSE IF obs.model_has_uuid
         THEN [ok |-> TRUE, names |-> << <<obs.group_name_prefix, Uuid(x)>> >>]
         ELSE [ok |-> FALSE, names |-> << >>]

\* Every group name the bound observer can compute.
AllGroups(obs) ==
    UNION {Range(GroupNames(obs, x).names) : x \in Instances}

\* ------------------------------------------------- broker and collaborators

\* How many broker calls (group join / leave) of one handler succeed before
\* the broker fails; the largest value lets every call succeed.
BrokerBudget == {0, 1, 2}

Min(a, b) == IF a < b THEN a ELSE b

\* ModelObserver.subscribe(instance): compute the group names and join each,
\* in order; the first k joins succeed.
ObserverSubscribe(obs, mem, x, k) ==
    LET g == GroupNames(obs, x)
        n == Min(k, Len(g.names))
    IN  IF ~g.ok
        THEN [outcome |-> "AttributeError", members |-> mem]
        ELSE [outcome |-> IF n = Len(g.names) THEN "ok" ELSE "JoinError",
              members |-> mem \cup {g.names[i] : i \in 1..n}]

\* Index of the first name the connection is not a member of (Len+1 if none).
FirstNonMember(mem, names) ==
    IF \E i \in 1..Len(names) : names[i] \notin mem
    THEN CHOOSE i \in 1..Len(names) :
            /\ names[i] \notin mem
            /\ \A j \in 1..(i - 1) : names[j] \in mem
    ELSE Len(names) + 1

\* ModelObserver.unsubscribe(instance): compute the same names and leave each,
\* in order; fails at a group the connection is not a member of, and when the
\* broker fails (after k successful leaves).
ObserverUnsubscribe(obs, mem, x, k) ==
    LET g == GroupNames(obs, x)
        f == FirstNonMember(mem, g.names)
        n == Min(Min(k, f - 1), Len(g.names))
    IN  IF ~g.ok
        THEN [outcome |-> "AttributeError", members |-> mem]
        ELSE [outcome |-> IF n = Len(g.names) THEN "ok"
                          ELSE IF f = n + 1 THEN "NotMember" ELSE "LeaveError",
              members |-> mem \ {g.names[i] : i \in 1..n}]

\* GenericAsyncAPIConsumer.get_object(**kwargs): the instance, or NotFound.
GetObject(sel) ==
    IF sel \in Instances THEN [ok |-> TRUE, instance |-> sel]
    ELSE [ok |-> FALSE, instance |-> NoSuchSelector]

\* ----------------------------------------- subscribe / unsubscribe handlers
\* Outcome "201" is the return (None, HTTP_201_CREATED), "204" the return
\* (None, HTTP_204_NO_CONTENT); every other outcome is the exception raised.

\* subscribe_instance without the request_id check: the call goes on to the
\* lookup and the join and records the absent id.
SubscribeInstanceUnchecked(obs, mem, dict, request_id, sel, k) ==
    LET got == GetObject(sel) IN
    IF ~got.ok
    THEN [outcome |-> "NotFound", calls |-> <<"get_object">>,
          members |-> mem, dict |-> dict]
    ELSE
    LET sub == ObserverSubscribe(obs, mem, got.instance, k) IN
    IF sub.outcome # "ok"
    THEN [outcome |-> sub.outcome, calls |-> <<"get_object", "subscribe">>,
          members |-> sub.members, dict |-> dict]
    ELSE [outcome |-> "201", calls |-> <<"get_object", "subscribe">>,
          members |-> sub.members, dict |-> DictSet(dict, HIC, request_id)]

\* subscribe_instance that records the request id under a key made of the
\* observer and the instance, one entry per subscribed instance.
SubscribeInstanceKeyedByInstance(obs, mem, dict, request_id, sel, k) ==
    IF request_id = None
    THEN [outcome |-> "ValueError", calls |-> << >>,
          members |-> mem, dict |-> dict]
    ELSE
    LET got == GetObject(sel) IN
    IF ~got.ok
    THEN [outcome |-> "NotFound", calls |-> <<"get_object">>,
          members |-> mem, dict |-> dict]
    ELSE
    LET sub == ObserverSubscribe(obs, mem, got.instance, k) IN
    IF sub.outcome # "ok"
    THEN [outcome |-> sub.outcome, calls |-> <<"get_object", "subscribe">>,
          members |-> sub.members, dict |-> dict]
    ELSE [outcome |-> "201", calls |-> <<"get_object", "subscribe">>,
          members |-> sub.members,
          dict |-> DictSet(dict,
                           IF got.instance = 1 THEN "handle_instance_change/1"
                           ELSE "handle_instance_change/2",
                           request_id)]

\* subscribe_instance(request_id, **kwargs) on a connection whose group
\* memberships are mem and whose subscribed_requests is dict.
SubscribeInstance(obs, mem, dict, request_id, sel, k) ==
    IF request_id = None
    THEN [outcome |-> "ValueError", calls |-> << >>,
          members |-> mem, dict |-> dict]
    ELSE
    LET got == GetObject(sel) IN
    IF ~got.ok
    THEN [outcome |-> "NotFound", calls |-> <<"get_object">>,
          members |-> mem, dict |-> dict]
    ELSE
    LET sub == ObserverSubscribe(obs, mem, got.instance, k) IN
    IF sub.outcome # "ok"
    THEN [outcome |-> sub.outcome, calls |-> <<"get_object", "subscribe">>,
          members |-> sub.members, dict |-> dict]
    ELSE [outcome |-> "201", calls |-> <<"get_object", "subscribe">>,
          members |-> sub.members, dict |-> DictSet(dict, HIC, request_id)]

\* unsubscribe_instance that leaves the groups and forgets the del.
UnsubscribeInstanceKeepsEntry(obs, mem, dict, request_id, sel, k) ==
    IF request_id = None
    THEN [outcome |-> "ValueError", calls |-> << >>,
          members |-> mem, dict |-> dict]
    ELSE
    LET got == GetObject(sel) IN
    IF ~got.ok
    THEN [outcome |-> "NotFound", calls |-> <<"get_object">>,
          members |-> mem, dict |-> dict]
    ELSE
    LET unsub == ObserverUnsubscribe(obs, mem, got.instance, k) IN
    IF unsub.outcome # "ok"
    THEN [outcome |-> unsub.outcome, calls |-> <<"get_object", "unsubscribe">>,
          members |-> unsub.members, dict |-> dict]
    ELSE [outcome |-> "204", calls |-> <<"get_object", "unsubscribe">>,
          members |-> unsub.members, dict |-> dict]

\* unsubscribe_instance with subscribed_requests.pop(key, None) for the del:
\* a missing entry is no error.
UnsubscribeInstancePop(obs, mem, dict, request_id, sel, k) ==
    IF request_id = None
    THEN [outcome |-> "ValueError", calls |-> << >>,
          members |-> mem, dict |-> dict]
    ELSE
    LET got == GetObject(sel) IN
    IF ~got.ok
    THEN [outcome |-> "NotFound", calls |-> <<"get_object">>,
          members |-> mem, dict |-> dict]
    ELSE
    LET unsub == ObserverUnsubscribe(obs, mem, got.instance, k) IN
    IF unsub.outcome # "ok"
    THEN [outcome |-> unsub.outcome, calls |-> <<"get_object", "unsubscribe">>,
          members |-> unsub.members, dict |-> dict]
    ELSE [outcome |-> "204", calls |-> <<"get_object", "unsubscribe">>,
          members |-> unsub.members, dict |-> DictDel(dict, HIC)]

\* unsubscribe_instance with the del in a finally clause around the leave:
\* the entry goes whether or not the leave succeeded.
UnsubscribeInstanceDelFinally(obs, mem, dict, request_id, sel, k) ==
    IF request_id = None
    THEN [outcome |-> "ValueError", calls |-> << >>,
          members |-> mem, dict |-> dict]
    ELSE
    LET got == GetObject(sel) IN
    IF ~got.ok
    THEN [outcome |-> "NotFound", calls |-> <<"get_object">>,
          members |-> mem, dict |-> dict]
    ELSE
    LET unsub == ObserverUnsubscribe(obs, mem, got.instance, k) IN
    IF HIC \notin DOMAIN dict
    THEN [outcome |-> "KeyError", calls |-> <<"get_object", "unsubscribe">>,
          members |-> unsub.members, dict |-> dict]
    ELSE IF unsub.outcome # "ok"
    THEN [outcome |-> unsub.outcome, calls |-> <<"get_object", "unsubscribe">>,
          members |-> unsub.members, dict |-> DictDel(dict, HIC)]
    ELSE [outcome |-> "204", calls |-> <<"get_object", "unsubscribe">>,
          members |-> unsub.members, dict |-> DictDel(dict, HIC)]

\* unsubscribe_instance(request_id, **kwargs).
UnsubscribeInstance(obs, mem, dict, request_id, sel, k) ==
    IF request_id = None
    THEN [outcome |-> "ValueError", calls |-> << >>,
          members |-> mem, dict |-> dict]
    ELSE
    LET got == GetObject(sel) IN
    IF ~got.ok
    THEN [outcome |-> "NotFound", calls |-> <<"get_object">>,
          members |-> mem, dict |-> dict]
    ELSE
    LET unsub == ObserverUnsubscribe(obs, mem, got.instance, k) IN
    IF unsub.outcome # "ok"
    THEN [outcome |-> unsub.outcome, calls |-> <<"get_object", "unsubscribe">>,
          members |-> unsub.members, dict |-> dict]
    ELSE IF HIC \notin DOMAIN dict
    THEN [outcome |-> "KeyError", calls |-> <<"get_object", "unsubscribe">>,
          members |-> unsub.members, dict |-> dict]
    ELSE [outcome |-> "204", calls |-> <<"get_object", "unsubscribe">>,
          members |-> unsub.members, dict |-> DictDel(dict, HIC)]

\* ----------------------------------------------------------------- dispatch

HTTP_200_OK == 200

\* status=204 of the delete short-circuit.
DeleteStatus == 204

\* Status codes of the error replies of handle_exception.
StatusForbidden == 403
StatusNotFound == 404
StatusServerError == 500

\* What may go wrong in the collaborators during one dispatch.
Failures == {"none", "permission", "retrieve", "reply"}

NoReply ==
    [kind |-> "none", action |-> "", request_id |-> None, status |-> 0,
     data |-> <<"none", 0>>]

\* self.reply(action=, request_id=, data=, status=)
Reply(action, request_id, data, status) ==
    [kind |-> "success", action |-> action, request_id |-> request_id,
     status |-> status, data |-> data]

\* AsyncAPIConsumer.handle_exception(exc, action=, request_id=): the error
\* reply carrying the action, the request id and the error.
HandleException(exc, action, request_id) ==
    [kind |-> "error", action |-> action, request_id |-> request_id,
     status |-> CASE exc = "PermissionDenied" -> StatusForbidden
                  [] exc = "NotFound" -> StatusNotFound
                  [] OTHER -> StatusServerError,
     data |-> <<"errors", 0>>]

\* RetrieveModelMixin.retrieve(**kwargs): get_object, serialize, and return
\* (serializer.data, HTTP_200_OK); NotFound when get_object fails.
Retrieve(kwargs, fail) ==
    IF fail = "retrieve"
    THEN [ok |-> FALSE, data |-> <<"none", 0>>, status |-> 0]
    ELSE [ok |-> TRUE, data |-> <<"serialized", kwargs[2]>>,
          status |-> HTTP_200_OK]

\* handle_observed_action that retrieves first and checks the permission
\* only before replying.
HandleObservedActionLatePermission(action, request_id, kwargs, fail) ==
    IF action = "delete"
    THEN IF fail = "permission"
         THEN [calls |-> <<"check_permissions", "handle_exception">>,
               reply |-> HandleException("PermissionDenied", action,
                                         request_id)]
         ELSE [calls |-> <<"check_permissions", "reply">>,
               reply |-> Reply(action, request_id, kwargs, DeleteStatus)]
    ELSE
    LET response == Retrieve(kwargs, fail) IN
    IF ~response.ok
    THEN [calls |-> <<"retrieve", "handle_exception">>,
          reply |-> HandleException("NotFound", action, request_id)]
    ELSE IF fail = "permission"
    THEN [calls |-> <<"retrieve", "check_permissions", "handle_exception">>,
          reply |-> HandleException("PermissionDenied", action, request_id)]
    ELSE [calls |-> <<"retrieve", "check_permissions", "reply">>,
          reply |-> Reply(action, request_id, response.data, response.status)]

\* handle_observed_action whose try block covers the retrieval only: what
\* the permission check or a reply raises leaves the handler, and no reply
\* is sent.
HandleObservedActionNarrowTry(action, request_id, kwargs, fail) ==
    IF fail = "permission"
    THEN [calls |-> <<"check_permissions">>, reply |-> NoReply]
    ELSE IF action = "delete"
    THEN IF fail = "reply"
         THEN [calls |-> <<"check_permissions", "reply">>, reply |-> NoReply]
         ELSE [calls |-> <<"check_permissions", "reply">>,
               reply |-> Reply(action, request_id, kwargs, DeleteStatus)]
    ELSE
    LET response == Retrieve(kwargs, fail) IN
    IF ~response.ok
    THEN [calls |-> <<"check_permissions", "retrieve", "handle_exception">>,
          reply |-> HandleException("NotFound", action, request_id)]
    ELSE IF fail = "reply"
    THEN [calls |-> <<"check_permissions", "retrieve", "reply">>,
          reply |-> NoReply]
    ELSE [calls |-> <<"check_permissions", "retrieve", "reply">>,
          reply |-> Reply(action, request_id, response.data, response.status)]

\* handle_observed_action(action, request_id, **kwargs): the collaborator
\* calls made, in order, and the reply sent.
HandleObservedAction(action, request_id, kwargs, fail) ==
    IF fail = "permission"
    THEN [calls |-> <<"check_permissions", "handle_exception">>,
          reply |-> HandleException("PermissionDenied", action, request_id)]
    ELSE IF action = "delete"
    THEN IF fail = "reply"
         THEN [calls |-> <<"check_permissions", "reply", "handle_exception">>,
               reply |-> HandleException("Exception", action, request_id)]
         ELSE [calls |-> <<"check_permissions", "reply">>,
               reply |-> Reply(action, request_id, kwargs, DeleteStatus)]
    ELSE
    LET response == Retrieve(kwargs, fail) IN
    IF ~response.ok
    THEN [calls |-> <<"check_permissions", "retrieve", "handle_exception">>,
          reply |-> HandleException("NotFound", action, request_id)]
    ELSE IF fail = "reply"
    THEN [calls |-> <<"check_permissions", "retrieve", "reply",
                      "handle_exception">>,
          reply |-> HandleException("Exception", action, request_id)]
    ELSE [calls |-> <<"check_permissions", "retrieve", "reply">>,
          reply |-> Reply(action, request_id, response.data, response.status)]

\* handle_instance_change that looks the request id up under a key the table
\* never holds (the bound attribute instead of the class attribute).
HandleInstanceChangeWrongKey(dict, message, fail) ==
    HandleObservedAction(message.action, DictGet(dict, "bound"),
                         <<"kwargs", message.pk>>, fail)

\* handle_instance_change(message): pop 'action' and 'type', look the request
\* id up in subscribed_requests and run handle_observed_action with the rest
\* of the message as kwargs.
HandleInstanceChange(dict, message, fail) ==
    HandleObservedAction(message.action, DictGet(dict, HIC),
                         <<"kwargs", message.pk>>, fail)

\* The change event the observer publishes for an instance.
Message(action, x) ==
    [type |-> "handle.instance.change", action |-> action, pk |-> x]

\* ------------------------------------------------ class-time binding

\* The attribute names under which classes declare observers.
HandlerNames == {"handle_instance_change", "on_change"}

\* An attribute a class does not declare.
Absent == "absent"

\* The mixin the library ships, the root of every consumer class.
Mixin == "ObserverModelInstanceMixin"

\* The classes a program defines, in the order it defines them.
UserClasses == <<"A", "B">>

NoAttr ==
    [kind |-> Absent, func |-> "", groups |-> "", serializer |-> "",
     model_cls |-> "", group_name_prefix |-> "", group_names_func |-> "",
     serializer_class |-> "", stream |-> ""]

\* _GenericModelObserver(func): an unbound observer and what .groups() and
\* .serializer() have set on it.
Descriptor(func, groups, serializer) ==
    [NoAttr EXCEPT !.kind = "descriptor", !.func = func, !.groups = groups,
                   !.serializer = serializer]

\* _GenericModelObserver.bind_to_model: the ModelObserver built from the
\* handler of the descriptor and the values passed, with the groups and
\* serializer overrides of the descriptor set on it.
BindToModel(attr, model_cls, v) ==
    [kind |-> "observer", func |-> attr.func, groups |-> attr.groups,
     serializer |-> attr.serializer, model_cls |-> model_cls,
     group_name_prefix |-> v.group_name_prefix,
     group_names_func |-> v.group_names_func,
     serializer_class |-> v.serializer_class, stream |-> v.stream]

\* The namespace of a class body that declares nothing.
EmptyNamespace ==
    [queryset |-> Absent, group_name_prefix |-> Absent,
     get_group_names |-> Absent, serializer_class |-> Absent,
     stream |-> Absent, handlers |-> [h \in HandlerNames |-> NoAttr]]

\* ObserverModelInstanceMixin: no queryset, and handle_instance_change an
\* unbound observer with its groups generator registered.
LibraryClasses ==
    LET body == [EmptyNamespace EXCEPT
                   !.handlers["handle_instance_change"] =
                       Descriptor(Mixin, "groups_generator", None)]
    IN  [n \in {Mixin} |->
            [bases |-> << >>, mro |-> <<Mixin>>, body |-> body, ns |-> body]]

\* What the body of a user class may declare.
Declarations ==
    [queryset : {Absent, "declared"},
     group_name_prefix : {Absent, "items", "gadgets"},
     get_group_names : {Absent, "fn"},
     serializer_class : {Absent, "S1", "S2"},
     stream : {Absent, "st"},
     handler : {Absent} \cup HandlerNames]

\* The namespace of the body of class name with the declarations decl; a
\* declared queryset is over the model named after the class, a declared
\* observer wraps the handler written in the class.
Namespace(name, decl) ==
    [queryset |-> IF decl.queryset = Absent THEN Absent ELSE name,
     group_name_prefix |-> decl.group_name_prefix,
     get_group_names |-> decl.get_group_names,
     serializer_class |-> decl.serializer_class,
     stream |-> decl.stream,
     handlers |-> [h \in HandlerNames |->
                     IF decl.handler = h THEN Descriptor(name, None, None)
                     ELSE NoAttr]]

\* namespace.get(key, default) for the configuration attributes.
NsGet(ns, key, default) == IF ns[key] = Absent THEN default ELSE ns[key]

\* The first class of a method resolution order that declares the
\* configuration attribute key (0 if none does).
FirstDeclaring(cls, mro, key) ==
    IF \E i \in 1..Len(mro) : cls[mro[i]].ns[key] # Absent
    THEN CHOOSE i \in 1..Len(mro) :
            /\ cls[mro[i]].ns[key] # Absent
            /\ \A j \in 1..(i - 1) : cls[mro[j]].ns[key] = Absent
    ELSE 0

\* getattr(base, key, default) for a configuration attribute.
GetAttr(cls, base, key, default) ==
    LET i == FirstDeclaring(cls, cls[base].mro, key)
    IN  IF i = 0 THEN default ELSE cls[cls[base].mro[i]].ns[key]

\* getattr(base, attr_name) for an attribute that may hold an observer.
GetHandler(cls, mro, h) ==
    IF \E i \in 1..Len(mro) : cls[mro[i]].ns.handlers[h].kind # Absent
    THEN LET i == CHOOSE i \in 1..Len(mro) :
                    /\ cls[mro[i]].ns.handlers[h].kind # Absent
                    /\ \A j \in 1..(i - 1) :
                          cls[mro[j]].ns.handlers[h].kind = Absent
         IN  cls[mro[i]].ns.handlers[h]
    ELSE NoAttr

\* The values the metaclass starts from: the class's own declarations.
StartValues(ns) ==
    [group_name_prefix |-> NsGet(ns, "group_name_prefix", ""),
     group_names_func |-> NsGet(ns, "get_group_names", None),
     serializer_class |-> NsGet(ns, "serializer_class", None),
     stream |-> NsGet(ns, "stream", None)]

\* The values after the loop body has read one base.
BaseValues(cls, base, v) ==
    LET new_serializer_class ==
            GetAttr(cls, base, "serializer_class", v.serializer_class)
    IN  [group_name_prefix |->
            GetAttr(cls, base, "group_name_prefix", v.group_name_prefix),
         group_names_func |->
            GetAttr(cls, base, "get_group_names", v.group_names_func),
         stream |-> GetAttr(cls, base, "stream", v.stream),
         serializer_class |->
            IF new_serializer_class # None THEN new_serializer_class
            ELSE v.serializer_class]

\* The first loop: every unbound observer of the namespace is bound with the
\* starting values.
BindOwn(ns, model_cls, v) ==
    [ns EXCEPT !.handlers =
        [h \in HandlerNames |->
            IF ns.handlers[h].kind = "descriptor"
            THEN BindToModel(ns.handlers[h], model_cls, v)
            ELSE ns.handlers[h]]]

\* One round of the loop over the bases: every unbound observer the base
\* exposes is bound with the values resolved so far and stored in the
\* namespace under its name.
BindBase(cls, base, ns, model_cls, v) ==
    [ns EXCEPT !.handlers =
        [h \in HandlerNames |->
            LET attr == GetHandler(cls, cls[base].mro, h)
            IN  IF attr.kind = "descriptor"
                THEN BindToModel(attr, model_cls, v)
                ELSE ns.handlers[h]]]

\* The loop over the bases, from base number i on.
RECURSIVE BindBases(_, _, _, _, _, _)
BindBases(cls, bases, i, ns, model_cls, v) ==
    IF i > Len(bases) THEN ns
    ELSE LET w == BaseValues(cls, bases[i], v)
         IN  BindBases(cls, bases, i + 1,
                       BindBase(cls, bases[i], ns, model_cls, w),
                       model_cls, w)

\* __new__ without the test of the queryset: it binds the observers of
\* every class, with whatever the namespace holds for the queryset.
MetaclassNewIgnoresQueryset(cls, bases, namespace) ==
    BindBases(cls, bases, 1,
              BindOwn(namespace, namespace.queryset, StartValues(namespace)),
              namespace.queryset, StartValues(namespace))

\* ObserverAPIConsumerMetaclass.__new__: the namespace the class is built
\* from.
MetaclassNew(cls, bases, namespace) ==
    IF namespace.queryset = Absent
    THEN namespace
    ELSE BindBases(cls, bases, 1,
                   BindOwn(namespace, namespace.queryset,
                           StartValues(namespace)),
                   namespace.queryset, StartValues(namespace))

\* Python's method resolution order: the C3 merge of the orders of the bases
\* and the list of bases (<<"inconsistent">> when there is none).
RECURSIVE C3Merge(_)
C3Merge(seqs) ==
    LET live == SelectSeq(seqs, LAMBDA q : q # << >>)
        good(h) == \A i \in 1..Len(live) : h \notin Range(Tail(live[i]))
    IN  IF live = << >> THEN << >>
        ELSE IF \A i \in 1..Len(live) : ~good(Head(live[i]))
        THEN <<"inconsistent">>
        ELSE LET k == CHOOSE i \in 1..Len(live) :
                        /\ good(Head(live[i]))
                        /\ \A j \in 1..(i - 1) : ~good(Head(live[j]))
                 h == Head(live[k])
                 rest == [i \in 1..Len(live) |->
                            SelectSeq(live[i], LAMBDA e : e # h)]
             IN  <<h>> \o C3Merge(rest)

Mro(cls, name, bases) ==
    <<name>> \o C3Merge([i \in 1..Len(bases) |-> cls[bases[i]].mro]
                        \o <<bases>>)

\* The lists of bases a new class may name: one or two distinct classes
\* that have a consistent method resolution order.
BaseLists(cls) ==
    {b \in {<<x>> : x \in DOMAIN cls}
           \cup {<<x, y>> : x, y \in DOMAIN cls} :
        /\ Len(b) = 2 => b[1] # b[2]
        /\ "inconsistent" \notin Range(Mro(cls, "new", b))}

\* The program defines its next class: the metaclass builds it from the
\* bases and the namespace of the class body.
DefineClass(bases, decl) ==
    /\ Len(UserClasses) >= Cardinality(DOMAIN classes)
    /\ bases \in BaseLists(classes)
    /\ LET name == UserClasses[Cardinality(DOMAIN classes)]
           new == [bases |-> bases, mro |-> Mro(classes, name, bases),
                   body |-> Namespace(name, decl),
                   ns |-> MetaclassNew(classes, bases,
                                       Namespace(name, decl))]
       IN  classes' = [n \in (DOMAIN classes) \cup {name} |->
                          IF n = name THEN new ELSE classes[n]]
    /\ UNCHANGED <<observer, members, subscribed_requests, inflight, last,
                   subscribedWith>>

\* The attribute h of a constructed class.
ClassHandler(name, h) == GetHandler(classes, classes[name].mro, h)

\* ------------------------------------------------------------------ actions

\* The record kept of the last handler run:
\*   op, conn   the handler and the connection it ran on
\*   instance   the selector passed (subscribe, unsubscribe) or the pk of the
\*              change event (dispatch)
\*   action     the action of the change event (dispatch)
\*   fail       the collaborator that failed during the dispatch
\*   outcome    the value returned or the exception raised; for a dispatch
\*              the kind of reply sent
\*   calls      the collaborator calls made, in order
\*   fresh      subscribe: the connection had no group and no entry before;
\*              unsubscribe: the call directly follows a successful subscribe
\*              of the same instance on a connection that was fresh
\*   hadEntry   unsubscribe, dispatch: the table held an entry before
\*   absent     subscribe, unsubscribe: the call passed no request_id
\*   reply      the reply a dispatch sent
NoOp ==
    [op |-> "init", conn |-> "", instance |-> 0, action |-> "",
     fail |-> "none", outcome |-> "", calls |-> << >>, fresh |-> FALSE,
     hadEntry |-> FALSE, absent |-> FALSE, reply |-> NoReply]

\* The bound observers a consumer class may end up with: the default group
\* name on a model with and without a uuid field, and a get_group_names
\* override (which does not read the uuid).
ObserverConfigs ==
    {o \in [group_name_prefix : {"items"}, has_group_names_func : BOOLEAN,
            model_has_uuid : BOOLEAN] :
        o.has_group_names_func => o.model_has_uuid}

Init ==
    /\ observer \in ObserverConfigs
    /\ members = [c \in Conns |-> {}]
    /\ subscribed_requests = [c \in Conns |-> EmptyDict]
    /\ inflight = << >>
    /\ last = NoOp
    /\ subscribedWith = [c \in Conns |-> [x \in Instances |-> None]]
    /\ classes = LibraryClasses

\* The history of the connection: which subscribe_instance call, if any, the
\* connection's subscription to instance x comes from.
Subscribed(hist, op, outcome, x, request_id) ==
    IF op = "subscribe_instance" /\ outcome = "201"
    THEN [hist EXCEPT ![x] = request_id]
    ELSE IF op = "unsubscribe_instance" /\ outcome \in {"204", "KeyError"}
    THEN [hist EXCEPT ![x] = None]
    ELSE hist

\* subscribe_instance on a table that is one dict shared by the connections
\* (a class attribute instead of the one __init__ creates per connection).
SubscribeSharedTable(c, request_id, sel, k) ==
    LET r == SubscribeInstance(observer, members[c], subscribed_requests[c],
                               request_id, sel, k)
    IN  /\ members' = [members EXCEPT ![c] = r.members]
        /\ subscribed_requests' = [d \in Conns |-> r.dict]
        /\ last' = [op |-> "subscribe_instance", conn |-> c,
                    instance |-> sel, action |-> "", fail |-> "none",
                    outcome |-> r.outcome, calls |-> r.calls,
                    fresh |-> (members[c] = {}
                               /\ subscribed_requests[c] = EmptyDict),
                    hadEntry |-> FALSE,
                    absent |-> (request_id = None),
                    reply |-> NoReply]
        /\ subscribedWith' =
             [subscribedWith EXCEPT ![c] =
                IF sel \in Instances
                THEN Subscribed(@, "subscribe_instance", r.outcome, sel,
                                request_id)
                ELSE @]
        /\ UNCHANGED <<observer, inflight, classes>>

\* A client calls subscribe_instance on connection c.
Subscribe(c, request_id, sel, k) ==
    LET r == SubscribeInstance(observer, members[c], subscribed_requests[c],
                               request_id, sel, k)
    IN  /\ members' = [members EXCEPT ![c] = r.members]
        /\ subscribed_requests' = [subscribed_requests EXCEPT ![c] = r.dict]
        /\ last' = [op |-> "subscribe_instance", conn |-> c,
                    instance |-> sel, action |-> "", fail |-> "none",
                    outcome |-> r.outcome, calls |-> r.calls,
                    fresh |-> (members[c] = {}
                               /\ subscribed_requests[c] = EmptyDict),
                    hadEntry |-> FALSE,
                    absent |-> (request_id = None),
                    reply |-> NoReply]
        /\ subscribedWith' =
             [subscribedWith EXCEPT ![c] =
                IF sel \in Instances
                THEN Subscribed(@, "subscribe_instance", r.outcome, sel,
                                request_id)
                ELSE @]
        /\ UNCHANGED <<observer, inflight, classes>>

\* A client calls unsubscribe_instance on connection c.
Unsubscribe(c, request_id, sel, k) ==
    LET r == UnsubscribeInstance(observer, members[c], subscribed_requests[c],
                                 request_id, sel, k)
    IN  /\ members' = [members EXCEPT ![c] = r.members]
        /\ subscribed_requests' = [subscribed_requests EXCEPT ![c] = r.dict]
        /\ last' = [op |-> "unsubscribe_instance", conn |-> c,
                    instance |-> sel, action |-> "", fail |-> "none",
                    outcome |-> r.outcome, calls |-> r.calls,
                    fresh |-> (/\ last.op = "subscribe_instance"
                               /\ last.conn = c
                               /\ last.outcome = "201"
                               /\ last.fresh
                               /\ last.instance = sel),
                    hadEntry |-> (HIC \in DOMAIN subscribed_requests[c]),
                    absent |-> (request_id = None),
                    reply |-> NoReply]
        /\ subscribedWith' =
             [subscribedWith EXCEPT ![c] =
                IF sel \in Instances
                THEN Subscribed(@, "unsubscribe_instance", r.outcome, sel,
                                request_id)
                ELSE @]
        /\ UNCHANGED <<observer, inflight, classes>>

\* The connections a change event of instance x reaches: those joined to one
\* of the instance's groups.
Recipients(x) ==
    {c \in Conns : members[c] \cap Range(GroupNames(observer, x).names) # {}}

\* The model changes: the observer publishes one change event to the groups
\* of the instance, which queues it on every connection joined to one.
Publish(action, x) ==
    /\ Recipients(x) # {}
    /\ Len(inflight) < MaxEvents
    /\ inflight' = Append(inflight, [message |-> Message(action, x),
                                     queued |-> Recipients(x)])
    /\ UNCHANGED <<observer, members, subscribed_requests, last,
                   subscribedWith, classes>>

\* The position in inflight of the oldest event queued on connection c
\* (0 if there is none).
NextEvent(c) ==
    IF \E i \in 1..Len(inflight) : c \in inflight[i].queued
    THEN CHOOSE i \in 1..Len(inflight) :
            /\ c \in inflight[i].queued
            /\ \A j \in 1..(i - 1) : c \notin inflight[j].queued
    ELSE 0

\* inflight once connection c has taken the event at position i.
Taken(i, c) ==
    LET marked == [inflight EXCEPT ![i].queued = @ \ {c}]
    IN  SelectSeq(marked, LAMBDA e : e.queued # {})

\* Connection c dispatches the oldest change event queued on it.
Deliver(c, fail) ==
    /\ NextEvent(c) # 0
    /\ LET message == inflight[NextEvent(c)].message
           r == HandleInstanceChange(subscribed_requests[c], message, fail)
       IN  /\ inflight' = Taken(NextEvent(c), c)
           /\ last' = [op |-> "handle_instance_change", conn |-> c,
                       instance |-> message.pk,
                       action |-> message.action, fail |-> fail,
                       outcome |-> r.reply.kind,
                       calls |-> r.calls, fresh |-> FALSE,
                       hadEntry |-> (HIC \in DOMAIN subscribed_requests[c]),
                       absent |-> FALSE,
                       reply |-> r.reply]
    /\ UNCHANGED <<observer, members, subscribed_requests, subscribedWith,
                   classes>>

\* One step of the system in which the connections of C act, clients pass
\* request ids of R and selectors of S, the broker lets k of B calls succeed,
\* the model publishes change events with the actions of A for the instances
\* of S and the collaborators of a dispatch fail as F says.
NextOver(C, R, S, B, A, F) ==
    \/ \E c \in C, request_id \in R, sel \in S, k \in B :
            Subscribe(c, request_id, sel, k)
    \/ \E c \in C, request_id \in R, sel \in S, k \in B :
            Unsubscribe(c, request_id, sel, k)
    \/ \E action \in A, x \in S \cap Instances : Publish(action, x)
    \/ \E c \in C, fail \in F : Deliver(c, fail)

\* One connection, every input and every failure.
Next ==
    NextOver({"c1"}, RequestIds \cup {None}, Selectors, BrokerBudget,
             Actions, Failures)

Spec == Init /\ [][Next]_vars

\* One connection and a broker whose joins and leaves never fail.
NextHealthy ==
    NextOver({"c1"}, RequestIds \cup {None}, Selectors, {2}, Actions,
             Failures)

SpecHealthy == Init /\ [][NextHealthy]_vars

\* Two connections side by side that subscribe to and are notified of one
\* instance, with every request id and every failure.
NextTwo ==
    NextOver(Conns, RequestIds \cup {None}, {1}, BrokerBudget,
             {"updated", "delete"}, Failures)

SpecTwo == Init /\ [][NextTwo]_vars

\* Class construction: the program defines its consumer classes.
InitBind == Init /\ ~observer.has_group_names_func /\ observer.model_has_uuid

NextBind ==
    \E bases \in BaseLists(classes), decl \in Declarations :
        DefineClass(bases, decl)

SpecBind == InitBind /\ [][NextBind]_vars

\* ------------------------------------------------------------------- claims

\* Has the last dispatch called the named collaborator?
Called(name) == name \in Range(last.calls)

\* C1: on a connection with no prior subscriptions, subscribe_instance of an
\* instance directly followed by unsubscribe_instance of the same instance
\* (both completing) leaves the connection in no group and its
\* subscribed_requests empty.
C1_SubscribeThenUnsubscribe ==
    (/\ last.op = "unsubscribe_instance"
     /\ last.fresh
     /\ last.outcome = "204")
    => /\ members[last.conn] = {}
       /\ subscribed_requests[last.conn] = EmptyDict

C1_Witness ==
    /\ last.op = "unsubscribe_instance"
    /\ last.fresh
    /\ last.outcome = "204"
    /\ observer.has_group_names_func
    /\ members[last.conn] = {}

\* C2: every reply to a change event of instance X carries the request id of
\* the subscribe_instance call by which the connection subscribed to X.
C2_ReplyCarriesSubscribeId ==
    (/\ last.op = "handle_instance_change"
     /\ subscribedWith[last.conn][last.instance] # None)
    => last.reply.request_id = subscribedWith[last.conn][last.instance]

\* C3: a created or updated change event dispatched on a connection whose
\* table holds an entry, with the permission check and the retrieval
\* succeeding, is answered by a reply that carries the request id recorded in
\* the table and the action of the event.
C3_ReplyCarriesRecordedId ==
    (/\ last.op = "handle_instance_change"
     /\ last.action \in {"created", "updated"}
     /\ HIC \in DOMAIN subscribed_requests[last.conn]
     /\ last.fail = "none")
    => /\ last.reply.kind = "success"
       /\ last.reply.request_id = subscribed_requests[last.conn][HIC]
       /\ last.reply.request_id \in RequestIds
       /\ last.reply.action = last.action

C3_Witness ==
    /\ last.op = "handle_instance_change"
    /\ last.action = "created"
    /\ HIC \in DOMAIN subscribed_requests[last.conn]
    /\ last.fail = "none"
    /\ last.reply.request_id = "r2"
    /\ last.reply.status = HTTP_200_OK

\* C4: a deleted change event that passes the permission check on a
\* subscribed connection is answered with status 204 and the payload of the
\* event, and the retrieval path is not invoked.
C4_DeletedShortCircuits ==
    (/\ last.op = "handle_instance_change"
     /\ last.action = "deleted"
     /\ HIC \in DOMAIN subscribed_requests[last.conn]
     /\ last.fail \in {"none", "retrieve"})
    => /\ last.reply.kind = "success"
       /\ last.reply.status = DeleteStatus
       /\ last.reply.data = <<"kwargs", last.instance>>
       /\ ~Called("retrieve")

\* C5: subscribe_instance and unsubscribe_instance called with an absent
\* request_id raise the validation error before any lookup, join or leave:
\* no collaborator is called, the group memberships and subscribed_requests
\* stay as they were.
C5_AbsentRequestIdRejected ==
    [][(/\ last'.op \in {"subscribe_instance", "unsubscribe_instance"}
        /\ last'.absent
        /\ inflight' = inflight)
       => /\ last'.outcome = "ValueError"
          /\ last'.calls = << >>
          /\ UNCHANGED <<members, subscribed_requests>>]_vars

C5_Witness ==
    /\ last.op = "subscribe_instance"
    /\ last.absent
    /\ last.outcome = "ValueError"
    /\ last.instance \in Instances
    /\ last.calls = << >>
    /\ members[last.conn] = {}

\* C7: a dispatch whose permission check denies sends exactly an error reply
\* with the action of the event and the request id looked up, and neither
\* retrieves nor sends a success reply.
C7_DenialRepliesError ==
    (/\ last.op = "handle_instance_change"
     /\ last.fail = "permission")
    => /\ last.reply.kind = "error"
       /\ last.reply.action = last.action
       /\ last.reply.request_id =
             DictGet(subscribed_requests[last.conn], HIC)
       /\ ~Called("retrieve")
       /\ ~Called("reply")

C7_Witness ==
    /\ last.op = "handle_instance_change"
    /\ last.fail = "permission"
    /\ last.action = "updated"
    /\ last.reply.kind = "error"
    /\ last.reply.request_id = "r1"

\* C8: subscribed_requests holds an entry for the observer if and only if
\* the connection is a member of at least one group of the observer.
C8_EntryIffMember ==
    \A c \in Conns :
        (HIC \in DOMAIN subscribed_requests[c])
        <=> (members[c] \cap AllGroups(observer) # {})

\* C9: unsubscribe_instance on a connection whose table holds no entry for
\* the observer ends in an error, never in the 204 return.
C9_UnsubscribeWithoutEntryFails ==
    (/\ last.op = "unsubscribe_instance"
     /\ ~last.hadEntry)
    => last.outcome # "204"

\* C6: each connection's dispatch replies with the request id of its own
\* table, and a connection's subscribed_requests changes only by a
\* subscribe_instance or unsubscribe_instance run on that connection, never
\* by a handler of another connection or by the delivery of an event.
C6_ConnectionsIndependent ==
    [][/\ \A d \in Conns :
            subscribed_requests'[d] # subscribed_requests[d]
            => /\ last'.conn = d
               /\ last'.op \in {"subscribe_instance", "unsubscribe_instance"}
               /\ inflight' = inflight
       /\ \A c \in Conns :
            (last'.op = "handle_instance_change" /\ last'.conn = c)
            => last'.reply.request_id
                  = DictGet(subscribed_requests'[c], HIC)]_vars

\* One change event queued on both connections: c1 has replied with its own
\* request id while c2, subscribed under another id, has yet to dispatch it.
C6_Witness ==
    /\ last.op = "handle_instance_change"
    /\ last.conn = "c1"
    /\ last.reply.kind = "success"
    /\ last.reply.request_id = "r1"
    /\ DictGet(subscribed_requests["c2"], HIC) = "r2"
    /\ inflight # << >>
    /\ inflight[1].queued = {"c2"}
    /\ inflight[1].message.pk = last.instance
    /\ inflight[1].message.action = last.action

C9_Witness ==
    /\ last.op = "unsubscribe_instance"
    /\ ~last.hadEntry
    /\ last.outcome = "KeyError"

\* C10: a class that declares an entity type and has an ancestor declaring
\* group_name_prefix and serializer_class ends up with an observer that uses
\* the class's own prefix and serializer where it declares them and the
\* nearest ancestor's otherwise.
C10_OwnThenNearest ==
    \A name \in (DOMAIN classes) \ {Mixin} :
        (/\ classes[name].ns.queryset # Absent
         /\ \E a \in Range(Tail(classes[name].mro)) :
                /\ classes[a].ns.group_name_prefix # Absent
                /\ classes[a].ns.serializer_class # Absent)
        => LET o == ClassHandler(name, HIC)
           IN  /\ o.kind = "observer"
               /\ o.group_name_prefix
                     = GetAttr(classes, name, "group_name_prefix", "")
               /\ o.serializer_class
                     = GetAttr(classes, name, "serializer_class", None)

\* C12: once unsubscribe_instance of instance X has completed on a connection,
\* the connection dispatches no change event of X: the step after the 204
\* return is never the dispatch, on that connection, of an event of X that
\* was published to X's group before the leave.
C12_NoDispatchAfterUnsubscribe ==
    [][(/\ last.op = "unsubscribe_instance"
        /\ last.outcome = "204"
        /\ last'.op = "handle_instance_change"
        /\ last'.conn = last.conn)
       => last'.instance # last.instance]_vars

\* C19: no reply sent for a change event, success or error, carries an
\* absent request id.
C19_ReplyHasRequestId ==
    (/\ last.op = "handle_instance_change"
     /\ last.reply.kind # "none")
    => last.reply.request_id # None

\* The collaborator that the last dispatch was set to fail in was called, so
\* it raised inside handle_observed_action.
Raised ==
    \/ last.fail = "permission" /\ Called("check_permissions")
    \/ last.fail = "retrieve" /\ Called("retrieve")
    \/ last.fail = "reply" /\ Called("reply")

\* C13: whatever the permission check, the delete short-circuit reply, the
\* retrieval or the success reply raises during handle_observed_action is
\* caught there and handed to handle_exception, which sends an error reply
\* with the action of the event and the request id looked up; the dispatch
\* ends after that call and leaves the connection's subscriptions as they
\* were.
C13_ExceptionsBecomeErrorReplies ==
    (/\ last.op = "handle_instance_change"
     /\ Raised)
    => /\ last.reply.kind = "error"
       /\ last.reply.action = last.action
       /\ last.reply.request_id
             = DictGet(subscribed_requests[last.conn], HIC)
       /\ last.calls # << >>
       /\ last.calls[Len(last.calls)] = "handle_exception"

\* The delete short-circuit reply raised and was answered by an error reply.
C13_Witness ==
    /\ last.op = "handle_instance_change"
    /\ last.action = "delete"
    /\ last.fail = "reply"
    /\ Raised
    /\ last.reply.kind = "error"
    /\ last.reply.request_id = "r1"
    /\ last.calls = <<"check_permissions", "reply", "handle_exception">>

\* C14: a subscribe_instance that fails because the selector resolves to no
\* instance or because the join of one of the computed groups fails leaves
\* the connection's group memberships and its subscribed_requests as they
\* were before the call.
C14_FailedSubscribeLeavesNoTrace ==
    [][(/\ last'.op = "subscribe_instance"
        /\ last'.outcome \in {"NotFound", "JoinError"})
       => UNCHANGED <<members, subscribed_requests>>]_vars

\* C15 as stated: an unsubscribe_instance whose group leave fails has
\* removed the observer's entry from subscribed_requests all the same.
C15_EntryDeletedEvenIfLeaveFails ==
    (/\ last.op = "unsubscribe_instance"
     /\ last.hadEntry
     /\ last.outcome \in {"LeaveError", "NotMember"})
    => HIC \notin DOMAIN subscribed_requests[last.conn]

\* C15 as amended: unsubscribe_instance deletes the observer's entry only
\* after the leave has succeeded; the entry present before the call is gone
\* exactly when the call returns 204, and it stays when the leave fails.
C15_EntryDeletedOnlyAfterLeave ==
    (/\ last.op = "unsubscribe_instance"
     /\ last.hadEntry)
    => ((HIC \notin DOMAIN subscribed_requests[last.conn])
        <=> last.outcome = "204")

\* The broker failed the leave of a subscribed connection: the entry is
\* still in the table.
C15_Witness ==
    /\ last.op = "unsubscribe_instance"
    /\ last.hadEntry
    /\ last.outcome = "LeaveError"
    /\ last.calls = <<"get_object", "unsubscribe">>
    /\ DictGet(subscribed_requests[last.conn], HIC) = "r1"

\* C16: the table of a connection holds at most one entry, the one under the
\* observer's key; after a successful subscribe_instance it holds exactly the
\* request id of that call, whatever was recorded before, and the connection
\* is still a member of the groups of every instance it subscribed to earlier.
C16_OneEntryPerObserver ==
    /\ \A c \in Conns : DOMAIN subscribed_requests[c] \subseteq {HIC}
    /\ (/\ last.op = "subscribe_instance"
        /\ last.outcome = "201")
       => /\ subscribedWith[last.conn][last.instance] \in RequestIds
          /\ subscribed_requests[last.conn]
                = DictSet(EmptyDict, HIC,
                          subscribedWith[last.conn][last.instance])
          /\ \A x \in Instances :
                subscribedWith[last.conn][x] # None
                => Range(GroupNames(observer, x).names)
                      \subseteq members[last.conn]

\* A second subscribe, of instance 2 under r2, on a connection subscribed to
\* instance 1 under r1: one entry, r2, and both memberships.
C16_Witness ==
    /\ last.op = "subscribe_instance"
    /\ last.outcome = "201"
    /\ ~last.fresh
    /\ last.instance = 2
    /\ subscribedWith[last.conn][1] = "r1"
    /\ subscribedWith[last.conn][2] = "r2"
    /\ subscribed_requests[last.conn] = DictSet(EmptyDict, HIC, "r2")
    /\ Range(GroupNames(observer, 1).names) \subseteq members[last.conn]
    /\ Range(GroupNames(observer, 2).names) \subseteq members[last.conn]

\* The group names C17 states: those of the override when there is one,
\* otherwise the single name made of the prefix and the uuid of the instance,
\* or its primary key when the model has no uuid.
ClaimedGroupNames(obs, x) ==
    IF obs.has_group_names_func
    THEN GroupNamesFunc(obs, x)
    ELSE << <<obs.group_name_prefix,
              IF obs.model_has_uuid THEN Uuid(x) ELSE x>> >>

\* C17: the group names of an instance are computed without error for every
\* observer; a subscribe_instance that succeeds on a connection without
\* subscriptions leaves it a member of exactly the stated names (the
\* override's names alone, or the single "{prefix}-{uuid, else pk}"), and the
\* unsubscribe_instance of the same instance leaves exactly those again.
C17_GroupNamesAsStated ==
    /\ last.op \in {"subscribe_instance", "unsubscribe_instance"}
       => last.outcome # "AttributeError"
    /\ (/\ last.op = "subscribe_instance"
        /\ last.outcome = "201"
        /\ last.fresh)
       => members[last.conn]
             = Range(ClaimedGroupNames(observer, last.instance))
    /\ (/\ last.op = "unsubscribe_instance"
        /\ last.outcome = "204"
        /\ last.fresh)
       => members[last.conn] = {}

\* No class above the named one in its method resolution order declares a
\* queryset.
NoQuerysetAbove(name) ==
    \A a \in Range(Tail(classes[name].mro)) : classes[a].ns.queryset = Absent

\* C18: constructing a class that declares no queryset binds nothing: its
\* namespace is the one of its body, and as long as no class above it
\* declares a queryset every observer it exposes is still an unbound
\* descriptor, also after subclasses were constructed; the first class of a
\* line that declares a queryset has every observer it exposes bound, in its
\* own namespace, to its own model.
C18_BindingDeferred ==
    \A name \in DOMAIN classes :
        /\ classes[name].ns.queryset = Absent
           => /\ classes[name].ns = classes[name].body
              /\ NoQuerysetAbove(name)
                 => \A h \in HandlerNames :
                       ClassHandler(name, h).kind \in {Absent, "descriptor"}
        /\ (classes[name].ns.queryset # Absent /\ NoQuerysetAbove(name))
           => \A h \in HandlerNames :
                 ClassHandler(name, h).kind # Absent
                 => /\ classes[name].ns.handlers[h].kind = "observer"
                    /\ classes[name].ns.handlers[h].model_cls = name

\* Class A declares no queryset and an observer on_change; its subclass B
\* declares the queryset: A's observers are still unbound, B's are bound to
\* B's model and on_change wraps the handler written in A.
C18_Witness ==
    /\ DOMAIN classes = {Mixin, "A", "B"}
    /\ classes["B"].bases = <<"A">>
    /\ classes["A"].ns.queryset = Absent
    /\ classes["A"].ns.handlers["on_change"].kind = "descriptor"
    /\ ClassHandler("A", HIC).kind = "descriptor"
    /\ classes["B"].ns.queryset = "B"
    /\ classes["B"].body.handlers["on_change"].kind = Absent
    /\ classes["B"].ns.handlers["on_change"].kind = "observer"
    /\ classes["B"].ns.handlers["on_change"].func = "A"
    /\ classes["B"].ns.handlers["on_change"].model_cls = "B"
    /\ classes["B"].ns.handlers[HIC].model_cls = "B"

\* C20: when a class that declares a queryset declares an observer in its own
\* body under a name under which a class above it exposes an unbound
\* descriptor, the observer the constructed class holds under that name
\* wraps the handler and the overrides of the class's own descriptor and is
\* bound with the class's own starting values.
C20_OwnDescriptorWins ==
    \A name \in (DOMAIN classes) \ {Mixin} :
        \A h \in HandlerNames :
            (/\ classes[name].body.queryset # Absent
             /\ classes[name].body.handlers[h].kind = "descriptor"
             /\ GetHandler(classes, Tail(classes[name].mro), h).kind
                   = "descriptor")
            => classes[name].ns.handlers[h]
                  = BindToModel(classes[name].body.handlers[h],
                                classes[name].body.queryset,
                                StartValues(classes[name].body))

====
